---- MODULE Spec2Model ----
(***************************************************************************)
(* Job lifecycle of the transcriber: the guarded transition function       *)
(* Job.update_status, the upload route that enqueues process_audio_task,   *)
(* the Celery worker that runs it (with automatic retries and late         *)
(* acknowledgement) and the cancel route.                                  *)
(*                                                                         *)
(* The database row of one job is the variable `job`; every commit of a    *)
(* session is one atomic step.  Calls to collaborators outside the core    *)
(* (ffmpeg, the transcription provider) either return or raise.            *)
(***************************************************************************)
EXTENDS Integers, Sequences, FiniteSets, TLC

----------------------------------------------------------------------------
(* Bounds of the model *)

\* number of cancel requests the clients send
MaxCancels == 2
\* number of times the broker redelivers an unacknowledged task message
MaxRedeliver == 1
\* number of subscribe and unsubscribe messages the connections send
MaxSubscribes == 3
\* number of events published by direct calls of the emitters
MaxEmits == 1
\* last clock value, for the timestamps written by update_status
MaxClock == 2

(* Program constants *)

\* retry_kwargs = {'max_retries': 3, ...}
max_retries == 3

----------------------------------------------------------------------------
(* backend/app/models/enums.py *)

UPLOADED == "uploaded"
QUEUED == "queued"
PROCESSING == "processing"
GENERATING_OUTPUT == "generating_output"
COMPLETED == "completed"
FAILED == "failed"
CANCELLED == "cancelled"

JobStatus ==
  {UPLOADED, QUEUED, PROCESSING, GENERATING_OUTPUT, COMPLETED, FAILED, CANCELLED}

valid_transitions(s) ==
  CASE s = UPLOADED -> {QUEUED, FAILED, CANCELLED}
    [] s = QUEUED -> {PROCESSING, FAILED, CANCELLED}
    [] s = PROCESSING -> {GENERATING_OUTPUT, FAILED, CANCELLED}
    [] s = GENERATING_OUTPUT -> {COMPLETED, FAILED}
    [] s = COMPLETED -> {}
    [] s = FAILED -> {}
    [] s = CANCELLED -> {}

\* a transition that also accepts the state the job is already in
can_transition_to_same(cur, new) == new \in valid_transitions(cur) \/ new = cur

can_transition_to(cur, new) == new \in valid_transitions(cur)

----------------------------------------------------------------------------
(* backend/app/models/job.py *)

\* a nullable DateTime column that holds no value; clock values start at 1
NoTime == 0
\* a nullable Text column (or an optional argument) that holds None
NoneMsg == "<None>"

\* Python truth value of an optional string: None and "" are false
Truthy(m) == m \notin {NoneMsg, ""}

\* the columns of a job row just created by the upload route
NewJob ==
  [status |-> UPLOADED, progress |-> 0, error_message |-> NoneMsg,
   processing_phase |-> NoneMsg, queue_position |-> NoneMsg,
   started_at |-> NoTime, completed_at |-> NoTime, can_cancel |-> TRUE]

\* update_status that forgets to force the progress of a completed job
update_status_keeps_progress(j, new_status, error_message, t) ==
  IF ~can_transition_to(j.status, new_status)
  THEN [ok |-> FALSE, job |-> j]
  ELSE LET j1 == [j EXCEPT !.status = new_status]
           j2 == IF new_status = PROCESSING /\ j1.started_at = NoTime
                 THEN [j1 EXCEPT !.started_at = t]
                 ELSE IF new_status \in {COMPLETED, FAILED}
                      THEN [j1 EXCEPT !.completed_at = t]
                      ELSE j1
           j3 == IF Truthy(error_message)
                 THEN [j2 EXCEPT !.error_message = error_message]
                 ELSE j2
       IN [ok |-> TRUE, job |-> j3]

\* Job.update_status: the returned flag and the job after the call
update_status(j, new_status, error_message, t) ==
  IF ~can_transition_to(j.status, new_status)
  THEN [ok |-> FALSE, job |-> j]
  ELSE LET j1 == [j EXCEPT !.status = new_status]
           j2 == IF new_status = PROCESSING /\ j1.started_at = NoTime
                 THEN [j1 EXCEPT !.started_at = t]
                 ELSE IF new_status \in {COMPLETED, FAILED}
                      THEN IF new_status = COMPLETED
                           THEN [j1 EXCEPT !.completed_at = t, !.progress = 100]
                           ELSE [j1 EXCEPT !.completed_at = t]
                      ELSE j1
           j3 == IF Truthy(error_message)
                 THEN [j2 EXCEPT !.error_message = error_message]
                 ELSE j2
       IN [ok |-> TRUE, job |-> j3]

----------------------------------------------------------------------------
(* State *)

Workers == {"w1", "w2"}
Clients == {"c1"}

\* the exceptions a stage of the pipeline raises; str(exc) is the msg field
Exceptions ==
  {[type |-> "ValueError", msg |-> "invalid input"],
   [type |-> "FileNotFoundError", msg |-> "file missing"],
   [type |-> "PermissionError", msg |-> "access denied"],
   [type |-> "ExternalAPIError", msg |-> "provider unavailable"],
   [type |-> "TimeoutError", msg |-> "timed out"]}
NoExc == [type |-> "None", msg |-> NoneMsg]

\* a cancel request that is not running
IdleRequest == [pc |-> "idle", snap |-> NewJob]

\* the Socket.IO connections of the clients
Connections == {"s1", "s2"}
\* the job_id of the job the upload route created, and the job_ids of the
\* jobs table: a second job exists whose pipeline is not followed
TheJob == "A"
JobIds == {"A", "B"}
\* no status update has been handed to the broadcaster yet
NoPush == [at |-> "none", sent |-> FALSE]

VARIABLES
  job,          \* the committed row of the job in the jobs table
  upc,          \* position of the upload request that created the job
  queue,        \* task messages in the broker: request.retries -> how many
  pc,           \* position of each worker in process_audio_task
  retries,      \* request.retries of the message each worker runs (0 if idle)
  exc,          \* the exception each worker is handling (NoExc if none)
  task_job_id,  \* whether the task instance of each worker has self.job_id set
  redelivered,  \* how many times the broker has redelivered a message
  creq,         \* each cancel request: position and the row it has loaded
  cresult,      \* response of the last cancel request of each client
  cancels,      \* number of cancel requests sent
  failure_log,  \* exception types the task has logged as failures of the job
  now,          \* the clock read by datetime.utcnow()
  tjob,         \* a job object on which update_status is called directly
  tprev,        \* that job before the last call
  ttarget,      \* new_status of the last call
  tmsg,         \* error_message of the last call
  tat,          \* clock value of the last call
  tres,         \* what the last call returned: "none" before any call
  job_exists,   \* whether the jobs table holds the row of the job
  time_limit,   \* per worker: the time limit that has expired on its task
  last_push,    \* the last status update handed to the broadcaster
  processing_history,  \* the rows of the processing_history table
  rooms,        \* Socket.IO rooms: job_id -> the connections joined to it
  inbox,        \* per connection: the events it has received, in order
  subs,         \* number of subscribe and unsubscribe messages sent
  emits,        \* number of events published by direct calls of the emitters
  request,      \* the last Socket.IO message handled: event, request.sid, job_id
  size_kb,      \* file_size_mb passed to estimate_processing_time, in 1/1024 MB
  estimate,     \* what estimate_processing_time returned: -1 before the call
  backend_type,     \* GracefulRedisService.backend_type
  redis_client,     \* GracefulRedisService.redis_client: the server it talks to
  last_connection_attempt,  \* GracefulRedisService.last_connection_attempt
  reachable,        \* which servers answer: for fake, whether fakeredis works
  probe_raises,     \* the servers whose client raises other than a RedisError
  use_fake_redis,   \* USE_FAKE_REDIS or DEVELOPMENT_MODE is 'true'
  conn,             \* the thread that connects: __init__, then the monitor
  uptime,           \* seconds since __init__, by the clock of time.sleep
  monitor_log,      \* what the monitor has logged: how often, and when last
  fallback_storage, \* GracefulRedisService.fallback_storage: key -> value
  expiry_timers,    \* GracefulRedisService.expiry_timers: key -> timer (0: none)
  timers,           \* the threading.Timer objects created, in order
  redis_data,       \* what each server holds: key -> bytes and expiry
  last_write,       \* per key: the last set or delete called on the service
  reply,            \* the last call of the service and what it returned
  ops,              \* number of calls of the service made
  rq                \* a request thread inside a call: what it has read so far

pipeVars ==
  <<job, upc, queue, pc, retries, exc, task_job_id, redelivered, creq,
    cresult, cancels, failure_log>>
callVars == <<tjob, tprev, ttarget, tmsg, tat, tres>>
rtVars == <<rooms, inbox, subs, emits, request>>
estVars == <<size_kb, estimate>>
envVars == <<reachable, probe_raises, use_fake_redis>>
connVars == <<backend_type, redis_client, last_connection_attempt, conn, envVars>>
memVars == <<fallback_storage, expiry_timers, timers>>
opVars == <<redis_data, last_write, reply, ops, rq>>
clockVars == <<uptime, monitor_log>>
redisVars == <<connVars, memVars, opVars, clockVars>>
svcVars == <<estVars, redisVars>>
\* everything but the clock and the state of GracefulRedisService
appVars ==
  <<pipeVars, callVars, job_exists, time_limit, last_push, processing_history,
    rtVars, estVars>>
auxVars == <<job_exists, time_limit, last_push, processing_history, rtVars,
             svcVars>>
vars == <<pipeVars, callVars, now, auxVars>>

----------------------------------------------------------------------------
(* Direct calls of Job.update_status on a job object in any state *)

\* the values the columns of the job under test start with
JobObjects ==
  [status : JobStatus, progress : {0, 50, 100},
   error_message : {NoneMsg, "earlier error"},
   processing_phase : {NoneMsg}, queue_position : {NoneMsg},
   started_at : {NoTime, 1}, completed_at : {NoTime, 1}, can_cancel : {TRUE}]

\* the error_message arguments tried: absent, empty and a text
MessageArgs == {NoneMsg, "", "boom"}

\* no Socket.IO message has been handled
NoRequest == [event |-> "none", sid |-> "none", job_id |-> NoneMsg]

\* stands for the estimate before estimate_processing_time has returned
NoEstimate == -1

\* estimate_processing_time has not been called
EstIdle ==
  /\ size_kb = 0
  /\ estimate = NoEstimate

\* RedisBackend
REDIS == "redis"
FAKE_REDIS == "fakeredis"
MEMORY == "memory"

\* the servers a client object talks to: the one of redis_url, the one on
\* localhost:6379, and the in-process fakeredis
Servers == {"configured", "localhost", "fake"}

\* redis_client is None
NoClient == "None"

\* the keys and the expiration times (ex, in seconds) the callers use;
\* ex = 0 stands for a call without ex, which `if ex:` treats alike
Keys == {"k"}
NoEx == 0
Expirations == {NoEx, 1, 2}

\* Python values: the type and the text of the value
PyNone == [type |-> "NoneType", text |-> "None"]
PyTrue == [type |-> "bool", text |-> "True"]
PyFalse == [type |-> "bool", text |-> "False"]
PyStr(t) == [type |-> "str", text |-> t]
PyInt(t) == [type |-> "int", text |-> t]
PyBool(b) == IF b THEN PyTrue ELSE PyFalse

\* a key the server does not hold
NoEntry == [present |-> FALSE, bytes |-> "", due |-> 0]

\* no set or delete has been called for the key
NoWrite == [op |-> "none", value |-> PyNone, ex |-> NoEx, at |-> 0, timer |-> 0]

\* no call has been made
NoReply == [op |-> "none", key |-> "", value |-> PyNone]

\* the monitor has logged nothing: no 'Redis connection lost' warning, no
\* 'Attempting Redis reconnection...' line
NoLog == [lost |-> 0, attempting |-> 0, attempted_at |-> -1]

\* the monitor thread at the start of time.sleep(30)
Sleeping == [pc |-> "sleep", strategy |-> "none", caller |-> "monitor", slept |-> 0]

\* the request thread is in no call of the service
NoCall == [pc |-> "idle", type_seen |-> "", client_seen |-> "", used |-> ""]

\* a service on the in-memory fallback on which nothing has been called
RedisIdle ==
  /\ backend_type = MEMORY
  /\ redis_client = NoClient
  /\ last_connection_attempt = NoTime
  /\ reachable = [c \in Servers |-> c = "fake"]
  /\ probe_raises = {}
  /\ use_fake_redis = FALSE
  /\ conn = Sleeping
  /\ uptime = 0
  /\ monitor_log = NoLog
  /\ fallback_storage = [k \in Keys |-> PyNone]
  /\ expiry_timers = [k \in Keys |-> 0]
  /\ timers = <<>>
  /\ redis_data = [c \in Servers |-> [k \in Keys |-> NoEntry]]
  /\ last_write = [k \in Keys |-> NoWrite]
  /\ reply = NoReply
  /\ ops = 0
  /\ rq = NoCall

\* no call of the services is under way
SvcIdle ==
  /\ EstIdle
  /\ RedisIdle

PipeIdle ==
  /\ job = NewJob
  /\ upc = "created"
  /\ queue = [r \in 0..(max_retries + 1) |-> 0]
  /\ pc = [w \in Workers |-> "idle"]
  /\ retries = [w \in Workers |-> 0]
  /\ exc = [w \in Workers |-> NoExc]
  /\ task_job_id = [w \in Workers |-> FALSE]
  /\ redelivered = 0
  /\ creq = [c \in Clients |-> IdleRequest]
  /\ cresult = [c \in Clients |-> "none"]
  /\ cancels = 0
  /\ failure_log = {}

\* the job is stored, no time limit has expired, nothing has been pushed or
\* recorded and no client is connected
AppIdle ==
  /\ job_exists = TRUE
  /\ time_limit = [w \in Workers |-> "none"]
  /\ last_push = NoPush
  /\ processing_history = <<>>
  /\ rooms = [j \in JobIds |-> {}]
  /\ inbox = [s \in Connections |-> <<>>]
  /\ subs = 0
  /\ emits = 0
  /\ request = NoRequest

AuxIdle ==
  /\ AppIdle
  /\ SvcIdle

CallIdle ==
  /\ tjob = NewJob
  /\ tprev = NewJob
  /\ ttarget = UPLOADED
  /\ tmsg = NoneMsg
  /\ tat = NoTime
  /\ tres = "none"

InitCall ==
  /\ PipeIdle
  /\ AuxIdle
  /\ now = 1
  /\ tjob \in JobObjects
  /\ tprev = tjob
  /\ ttarget = UPLOADED
  /\ tmsg = NoneMsg
  /\ tat = NoTime
  /\ tres = "none"

\* job.update_status(new_status, error_message)
CallUpdateStatus(new_status, error_message) ==
  LET r == update_status(tjob, new_status, error_message, now)
  IN /\ tprev' = tjob
     /\ ttarget' = new_status
     /\ tmsg' = error_message
     /\ tat' = now
     /\ tjob' = r.job
     /\ tres' = IF r.ok THEN "true" ELSE "false"
     /\ UNCHANGED <<pipeVars, now, auxVars>>

\* time passes between two calls
Tick ==
  /\ now < MaxClock
  /\ now' = now + 1
  /\ UNCHANGED <<pipeVars, callVars, auxVars>>

NextCall ==
  \/ \E B \in JobStatus, m \in MessageArgs : CallUpdateStatus(B, m)
  \/ Tick

SpecCall == InitCall /\ [][NextCall]_vars

----------------------------------------------------------------------------
(* The serving program: upload route, Celery worker, cancel route *)

Init ==
  /\ PipeIdle
  /\ CallIdle
  /\ AuxIdle
  /\ now = 1

\* db.session.commit(): the UPDATE writes the columns whose value in the
\* session differs from the value the session loaded, and no other column
CommitDirty(row, loaded, local) ==
  [f \in DOMAIN row |-> IF local[f] # loaded[f] THEN local[f] ELSE row[f]]

\* upload_file has returned its response: after delay() ("done") or after
\* the except clause around it ("unqueued")
Responded == {"done", "unqueued"}

\* upload_file: the response of the route once it has returned
upload_response ==
  IF upc \in Responded
  THEN [success |-> TRUE, status |-> 200,
        message |-> "File uploaded successfully and queued for processing"]
  ELSE [success |-> FALSE, status |-> 0, message |-> ""]

\* upload_file: job.status = JobStatus.QUEUED; db.session.commit()
UploadQueue ==
  /\ upc = "created"
  /\ job' = [job EXCEPT !.status = QUEUED]
  /\ upc' = "queued"
  /\ UNCHANGED <<queue, pc, retries, exc, task_job_id, redelivered, creq,
                 cresult, cancels, callVars, now, auxVars, failure_log>>

\* upload_file: process_audio_task.delay(job.id) publishes the task message
UploadEnqueue ==
  /\ upc = "queued"
  /\ queue' = [queue EXCEPT ![0] = @ + 1]
  /\ upc' = "done"
  /\ UNCHANGED <<job, pc, retries, exc, task_job_id, redelivered, creq,
                 cresult, cancels, callVars, now, auxVars, failure_log>>

\* an upload that marks the job failed when delay() raises
UploadEnqueueFails_fails_job ==
  /\ upc = "queued"
  /\ upc' = "unqueued"
  /\ job' = [job EXCEPT !.status = FAILED]
  /\ UNCHANGED <<queue, pc, retries, exc, task_job_id, redelivered, creq,
                 cresult, cancels, callVars, now, auxVars, failure_log>>

\* upload_file: delay() raises (broker unreachable); the route logs a warning
\* and goes on to the same return as after a delay() that succeeded
UploadEnqueueFails ==
  /\ upc = "queued"
  /\ upc' = "unqueued"
  /\ UNCHANGED <<job, queue, pc, retries, exc, task_job_id, redelivered, creq,
                 cresult, cancels, callVars, now, auxVars, failure_log>>

\* the broker hands a task message to an idle worker; with task_acks_late the
\* message stays unacknowledged until the task has run.  The time limits of
\* the task count from here.
Deliver(w) ==
  /\ pc[w] = "idle"
  /\ \E r \in DOMAIN queue :
       /\ queue[r] > 0
       /\ queue' = [queue EXCEPT ![r] = @ - 1]
       /\ retries' = [retries EXCEPT ![w] = r]
  /\ pc' = [pc EXCEPT ![w] = "start"]
  /\ time_limit' = [time_limit EXCEPT ![w] = "none"]
  /\ UNCHANGED <<job, upc, exc, task_job_id, redelivered, creq, cresult,
                 cancels, callVars, now, failure_log, job_exists, last_push,
                 processing_history, svcVars, rtVars>>

\* the broker delivers again a message that a worker holds unacknowledged
Redeliver(w) ==
  /\ pc[w] # "idle"
  /\ redelivered < MaxRedeliver
  /\ redelivered' = redelivered + 1
  /\ queue' = [queue EXCEPT ![retries[w]] = @ + 1]
  /\ UNCHANGED <<job, upc, pc, retries, exc, task_job_id, creq, cresult,
                 cancels, callVars, now, auxVars, failure_log>>

\* raise ValueError(f"Job {job_id} not found")
JobNotFound == [type |-> "ValueError", msg |-> "Job not found"]

\* process_audio_task: job = Job.query.get(job_id); if not job: raise
\* ValueError; job.status = JobStatus.PROCESSING; db.session.commit()
TaskStart(w) ==
  /\ pc[w] = "start"
  /\ IF job_exists
     THEN /\ job' = [job EXCEPT !.status = PROCESSING]
          /\ pc' = [pc EXCEPT ![w] = "cp10"]
          /\ exc' = exc
     ELSE /\ job' = job
          /\ pc' = [pc EXCEPT ![w] = "except"]
          /\ exc' = [exc EXCEPT ![w] = JobNotFound]
  /\ UNCHANGED <<upc, queue, retries, task_job_id, redelivered, creq,
                 cresult, cancels, callVars, now, auxVars, failure_log>>

\* the update_progress calls of process_audio_task, in program order:
\* position -> stage and progress passed and the position that follows
Checkpoints ==
  [cp10 |-> [progress |-> 10, stage |-> "preprocessing",
             next |-> "preprocess"],
   cp20 |-> [progress |-> 20, stage |-> "uploading_to_api",
             next |-> "create_service"],
   cp30 |-> [progress |-> 30, stage |-> "processing_api",
             next |-> "process_audio"],
   cp90 |-> [progress |-> 90, stage |-> "downloading_results",
             next |-> "cp95"],
   cp95 |-> [progress |-> 95, stage |-> "postprocessing",
             next |-> "complete"],
   cp100 |-> [progress |-> 100, stage |-> "completed", next |-> "idle"]]

\* the methods class ProgressService defines
ProgressServiceMethods ==
  {"estimate_processing_time", "update_job_progress",
   "calculate_estimated_completion", "update_queue_position",
   "record_processing_completion", "get_queue_status"}

\* BaseProcessingTask._send_status_update: ProgressService().send_job_update
\* is called inside try/except Exception, which logs and discards whatever is
\* raised, the AttributeError of a missing method included.  The value is
\* whether the update was handed to the broadcaster; nothing is ever raised.
send_status_update == "send_job_update" \in ProgressServiceMethods

\* update_progress without the exception handlers around the push: a push
\* that is not delivered raises into process_audio_task
update_progress_unguarded(w) ==
  /\ pc[w] \in DOMAIN Checkpoints
  /\ task_job_id' = [task_job_id EXCEPT ![w] = TRUE]
  /\ job' = IF job_exists
            THEN [job EXCEPT !.progress = Checkpoints[pc[w]].progress]
            ELSE job
  /\ last_push' = [at |-> pc[w], sent |-> send_status_update]
  /\ IF send_status_update
     THEN /\ pc' = [pc EXCEPT ![w] = Checkpoints[pc[w]].next]
          /\ retries' = IF Checkpoints[pc[w]].next = "idle"
                        THEN [retries EXCEPT ![w] = 0] ELSE retries
          /\ exc' = exc
     ELSE /\ pc' = [pc EXCEPT ![w] = "except"]
          /\ retries' = retries
          /\ exc' = [exc EXCEPT ![w] =
                      [type |-> "AttributeError", msg |-> "send_job_update"]]
  /\ UNCHANGED <<upc, queue, redelivered, creq, cresult, cancels,
                 callVars, now, failure_log, job_exists, time_limit,
                 processing_history, svcVars, rtVars>>

\* BaseProcessingTask.update_progress: self.job_id = job_id; the row is read
\* again, job.progress = progress (the message goes to job.status_message,
\* which is no column); db.session.commit(); then _send_status_update.  After
\* the last checkpoint the task returns and its message is acknowledged.
update_progress(w) ==
  /\ pc[w] \in DOMAIN Checkpoints
  /\ task_job_id' = [task_job_id EXCEPT ![w] = TRUE]
  /\ job' = IF job_exists
            THEN [job EXCEPT !.progress = Checkpoints[pc[w]].progress]
            ELSE job
  /\ last_push' = [at |-> pc[w], sent |-> send_status_update]
  /\ pc' = [pc EXCEPT ![w] = Checkpoints[pc[w]].next]
  /\ retries' = IF Checkpoints[pc[w]].next = "idle"
                THEN [retries EXCEPT ![w] = 0] ELSE retries
  /\ UNCHANGED <<upc, queue, exc, redelivered, creq, cresult, cancels,
                 callVars, now, failure_log, job_exists, time_limit,
                 processing_history, svcVars, rtVars>>

\* the calls to collaborators between two checkpoints, and what follows each:
\* audio_service.analyze_audio_file and preprocess_for_speechkit,
\* create_processing_service, processing_service.process_audio
Stages ==
  [preprocess |-> "cp20", create_service |-> "cp30", process_audio |-> "cp90"]

\* a stage returns
StageReturns(w) ==
  /\ pc[w] \in DOMAIN Stages
  /\ pc' = [pc EXCEPT ![w] = Stages[pc[w]]]
  /\ UNCHANGED <<job, upc, queue, retries, exc, task_job_id, redelivered,
                 creq, cresult, cancels, callVars, now, auxVars, failure_log>>

\* a stage raises: control goes to the except clause of the task
StageRaises(w) ==
  /\ pc[w] \in DOMAIN Stages
  /\ \E e \in Exceptions : exc' = [exc EXCEPT ![w] = e]
  /\ pc' = [pc EXCEPT ![w] = "except"]
  /\ UNCHANGED <<job, upc, queue, retries, task_job_id, redelivered, creq,
                 cresult, cancels, callVars, now, auxVars, failure_log>>

\* process_audio_task: job.status = JobStatus.COMPLETED; job.progress = 100;
\* db.session.commit()
TaskComplete(w) ==
  /\ pc[w] = "complete"
  /\ job' = [job EXCEPT !.status = COMPLETED, !.progress = 100]
  /\ pc' = [pc EXCEPT ![w] = "cp100"]
  /\ UNCHANGED <<upc, queue, retries, exc, task_job_id, redelivered, creq,
                 cresult, cancels, callVars, now, auxVars, failure_log>>

\* an except clause that marks the job Failed and leaves its error message
TaskExcept_keeps_message(w) ==
  /\ pc[w] = "except"
  /\ job' = IF job_exists THEN [job EXCEPT !.status = FAILED] ELSE job
  /\ pc' = [pc EXCEPT ![w] = "autoretry"]
  /\ failure_log' = failure_log \cup {exc[w].type}
  /\ UNCHANGED <<upc, queue, retries, exc, task_job_id, redelivered, creq,
                 cresult, cancels, callVars, now, auxVars>>

\* process_audio_task, except clause: logger.error(...);
\* job = Job.query.get(job_id); if job: job.status = JobStatus.FAILED;
\* job.error_message = str(exc); db.session.commit(); raise exc
TaskExcept(w) ==
  /\ pc[w] = "except"
  /\ job' = IF job_exists
            THEN [job EXCEPT !.status = FAILED, !.error_message = exc[w].msg]
            ELSE job
  /\ pc' = [pc EXCEPT ![w] = "autoretry"]
  /\ failure_log' = failure_log \cup {exc[w].type}
  /\ UNCHANGED <<upc, queue, retries, exc, task_job_id, redelivered, creq,
                 cresult, cancels, callVars, now, auxVars>>

\* Task.retry gives up after max_retries - 1 retries
retries_exhausted_early(r) == r + 1 >= max_retries

\* Task.retry(max_retries=3) called by the autoretry wrapper in an execution
\* whose request.retries is r: it re-raises instead of retrying
retries_exhausted(r) == r + 1 > max_retries

\* autoretry_for = (Exception,): the raised exception is answered with
\* self.retry(exc=exc, **retry_kwargs), which publishes the task again with
\* request.retries + 1; the current message is acknowledged
AutoRetry(w) ==
  /\ pc[w] = "autoretry"
  /\ ~retries_exhausted(retries[w])
  /\ queue' = [queue EXCEPT ![retries[w] + 1] = @ + 1]
  /\ pc' = [pc EXCEPT ![w] = "idle"]
  /\ retries' = [retries EXCEPT ![w] = 0]
  /\ exc' = [exc EXCEPT ![w] = NoExc]
  /\ UNCHANGED <<job, upc, task_job_id, redelivered, creq, cresult, cancels,
                 callVars, now, auxVars, failure_log>>

\* self.retry re-raises the exception: the task has failed
RetryGivesUp(w) ==
  /\ pc[w] = "autoretry"
  /\ retries_exhausted(retries[w])
  /\ pc' = [pc EXCEPT ![w] = "on_failure"]
  /\ UNCHANGED <<job, upc, queue, retries, exc, task_job_id, redelivered,
                 creq, cresult, cancels, callVars, now, auxVars, failure_log>>

\* BaseProcessingTask.on_failure: if self.job_id: job = Job.query.get(...);
\* if job: job.status = FAILED; job.error_message = str(exc);
\* db.session.commit(); _send_status_update(...); then the message is
\* acknowledged
on_failure(w) ==
  /\ pc[w] = "on_failure"
  /\ IF task_job_id[w] /\ job_exists
     THEN /\ job' = [job EXCEPT !.status = FAILED,
                                !.error_message = exc[w].msg]
          /\ last_push' = [at |-> "on_failure", sent |-> send_status_update]
     ELSE UNCHANGED <<job, last_push>>
  /\ pc' = [pc EXCEPT ![w] = "idle"]
  /\ retries' = [retries EXCEPT ![w] = 0]
  /\ exc' = [exc EXCEPT ![w] = NoExc]
  /\ UNCHANGED <<upc, queue, task_job_id, redelivered, creq, cresult,
                 cancels, callVars, now, failure_log, job_exists, time_limit,
                 processing_history, svcVars, rtVars>>

\* cancel_job: job = Job.query.filter_by(job_id=job_id).first().  The client
\* has the job_id from the response of upload_file, its last statement.
CancelLoad(c) ==
  /\ upc \in Responded
  /\ creq[c].pc = "idle"
  /\ cancels < MaxCancels
  /\ cancels' = cancels + 1
  /\ creq' = [creq EXCEPT ![c] = [pc |-> "loaded", snap |-> job]]
  /\ UNCHANGED <<job, upc, queue, pc, retries, exc, task_job_id, redelivered,
                 cresult, callVars, now, auxVars, failure_log>>

\* cancel_job on the row it loaded: what it answers and what its session holds
cancel_job(loaded, t) ==
  IF ~loaded.can_cancel \/ loaded.status \in {COMPLETED, FAILED, CANCELLED}
  THEN [response |-> "400 cannot cancel", local |-> loaded]
  ELSE LET r == update_status(loaded, CANCELLED, "Job cancelled by user", t)
       IN IF r.ok
          THEN [response |-> "200 cancelled",
                local |-> [r.job EXCEPT !.can_cancel = FALSE, !.progress = 0]]
          ELSE [response |-> "400 transition not allowed", local |-> loaded]

\* socketio.emit(event, data, room=job_id) that reaches every connection
emit_to_all(box, members, e) ==
  [s \in Connections |-> Append(box[s], e)]

\* socketio.emit(event, data, room=job_id): the event is appended to what
\* each connection in the room has received
emit_to_room(box, members, e) ==
  [s \in Connections |-> IF s \in members THEN Append(box[s], e) ELSE box[s]]

\* emit_job_status_update(job_id, status_data): what the connections have
\* received afterwards.  When socketio.emit raises (ok is false) the
\* exception is logged and discarded.
emit_job_status_update(job_id, status_data, ok) ==
  IF ok
  THEN emit_to_room(inbox, rooms[job_id],
                    [event |-> "job_status_update", job_id |-> job_id,
                     status |-> status_data.status,
                     progress |-> status_data.progress,
                     processing_phase |-> status_data.processing_phase])
  ELSE inbox

\* emit_queue_position_update(job_id, position)
emit_queue_position_update(job_id, position, ok) ==
  IF ok
  THEN emit_to_room(inbox, rooms[job_id],
                    [event |-> "queue_position_update", job_id |-> job_id,
                     queue_position |-> position])
  ELSE inbox

\* emit_processing_error(job_id, error_message)
emit_processing_error(job_id, error_message, ok) ==
  IF ok
  THEN emit_to_room(inbox, rooms[job_id],
                    [event |-> "processing_error", job_id |-> job_id,
                     error_message |-> error_message])
  ELSE inbox

\* the status_data cancel_job publishes
CancelledUpdate ==
  [status |-> CANCELLED, progress |-> 0, processing_phase |-> "cancelled"]

\* cancel_job: the checks, update_status, db.session.commit(), the
\* cancellation update published to the room of the job, and the answer
CancelCommit(c) ==
  /\ creq[c].pc = "loaded"
  /\ LET r == cancel_job(creq[c].snap, now)
     IN /\ job' = CommitDirty(job, creq[c].snap, r.local)
        /\ cresult' = [cresult EXCEPT ![c] = r.response]
        /\ IF r.response = "200 cancelled"
           THEN \E ok \in BOOLEAN :
                  /\ inbox' = emit_job_status_update(TheJob, CancelledUpdate, ok)
                  /\ last_push' = [at |-> "cancel_job", sent |-> ok]
           ELSE UNCHANGED <<inbox, last_push>>
  /\ creq' = [creq EXCEPT ![c] = IdleRequest]
  /\ UNCHANGED <<upc, queue, pc, retries, exc, task_job_id, redelivered,
                 cancels, callVars, now, failure_log, job_exists, time_limit,
                 processing_history, svcVars, rooms, subs, emits, request>>

\* task_soft_time_limit: SoftTimeLimitExceeded, an Exception, is raised in
\* the running task wherever it is.  Inside a stage, or in the task body
\* around a commit, it reaches the except clause of the task.  Inside
\* update_progress it is caught, logged and discarded by the try/except of
\* update_progress, before or after the commit of the progress, and the task
\* goes on.  Inside the try of the except clause it is discarded likewise,
\* before or after the commit of the failure, and the first exception is
\* raised.
SoftTimeLimitExceeded ==
  [type |-> "SoftTimeLimitExceeded", msg |-> "SoftTimeLimitExceeded()"]

SoftTimeLimit(w) ==
  /\ time_limit[w] = "none"
  /\ pc[w] \in (DOMAIN Stages \cup DOMAIN Checkpoints
                  \cup {"start", "complete", "except"})
  /\ time_limit' = [time_limit EXCEPT ![w] = "soft"]
  /\ \/ /\ pc[w] \in DOMAIN Stages \cup {"start", "complete"}
        /\ exc' = [exc EXCEPT ![w] = SoftTimeLimitExceeded]
        /\ pc' = [pc EXCEPT ![w] = "except"]
        /\ UNCHANGED <<job, task_job_id, retries>>
     \/ /\ pc[w] \in DOMAIN Checkpoints
        /\ task_job_id' = [task_job_id EXCEPT ![w] = TRUE]
        /\ \E committed \in BOOLEAN :
             job' = IF committed
                    THEN [job EXCEPT !.progress = Checkpoints[pc[w]].progress]
                    ELSE job
        /\ pc' = [pc EXCEPT ![w] = Checkpoints[pc[w]].next]
        /\ retries' = IF Checkpoints[pc[w]].next = "idle"
                      THEN [retries EXCEPT ![w] = 0] ELSE retries
        /\ exc' = exc
     \/ /\ pc[w] = "except"
        /\ \E committed \in BOOLEAN :
             job' = IF committed
                    THEN [job EXCEPT !.status = FAILED,
                                     !.error_message = exc[w].msg]
                    ELSE job
        /\ pc' = [pc EXCEPT ![w] = "autoretry"]
        /\ UNCHANGED <<exc, task_job_id, retries>>
  /\ UNCHANGED <<upc, queue, redelivered, creq, cresult, cancels, callVars,
                 now, failure_log, job_exists, last_push, processing_history, svcVars,
                 rtVars>>

\* task_time_limit: the pool kills the child process that still runs the
\* task when the hard limit expires, 300 s after the soft one.  No code of
\* the task runs, on_failure included; the task is marked failed in the
\* result backend, its message is acknowledged (acks_late with
\* acks_on_failure_or_timeout), and a new child with a new task instance
\* takes the place of the killed one.
HardTimeLimit(w) ==
  /\ time_limit[w] = "soft"
  /\ pc[w] # "idle"
  /\ time_limit' = [time_limit EXCEPT ![w] = "hard"]
  /\ pc' = [pc EXCEPT ![w] = "idle"]
  /\ retries' = [retries EXCEPT ![w] = 0]
  /\ exc' = [exc EXCEPT ![w] = NoExc]
  /\ task_job_id' = [task_job_id EXCEPT ![w] = FALSE]
  /\ UNCHANGED <<job, upc, queue, redelivered, creq, cresult, cancels,
                 callVars, now, failure_log, job_exists, last_push,
                 processing_history, svcVars, rtVars>>

\* the columns of the second job, which stays as it was uploaded
OtherJob == NewJob

\* Job.find_by_job_id: whether the jobs table holds a row with this job_id
JobFound(j) == j \in JobIds /\ (j = TheJob => job_exists)

\* the row Job.find_by_job_id returns
JobRow(j) == IF j = TheJob THEN job ELSE OtherJob

\* the job_id a client puts into a subscribe or unsubscribe message: that of
\* a job, none, or one no job has
JobIdArgs == JobIds \cup {NoneMsg, "unknown"}

\* emit(event, data) inside a handler: the event goes to the connection
\* whose message is being handled
emit_to_sender(box, s, e) == [box EXCEPT ![s] = Append(@, e)]

\* the data of the snapshot handle_job_status_subscription sends
StatusSnapshot(j, row) ==
  [event |-> "job_status_update", job_id |-> j,
   status |-> row.status, progress |-> row.progress,
   processing_phase |-> row.processing_phase,
   queue_position |-> row.queue_position,
   can_cancel |-> row.can_cancel,
   error_message |-> row.error_message]

\* a subscription whose snapshot goes to the room of the job
subscribe_job_status_to_room(s, j) ==
  /\ subs < MaxSubscribes
  /\ subs' = subs + 1
  /\ request' = [event |-> "subscribe_job_status", sid |-> s, job_id |-> j]
  /\ IF j = NoneMsg
     THEN /\ inbox' = emit_to_sender(inbox, s,
                         [event |-> "error", message |-> "job_id is required"])
          /\ rooms' = rooms
     ELSE IF ~JobFound(j)
     THEN /\ inbox' = emit_to_sender(inbox, s,
                         [event |-> "error", message |-> "Job not found"])
          /\ rooms' = rooms
     ELSE /\ rooms' = [rooms EXCEPT ![j] = @ \cup {s}]
          /\ inbox' = emit_to_room(inbox, rooms'[j], StatusSnapshot(j, JobRow(j)))
  /\ UNCHANGED <<pipeVars, callVars, now, job_exists, time_limit, last_push,
                 processing_history, svcVars, emits>>

\* handle_job_status_subscription: without a job_id, or when no job has it,
\* the connection is sent an error; otherwise it joins the room of the job
\* and is sent the current status of the job
subscribe_job_status(s, j) ==
  /\ subs < MaxSubscribes
  /\ subs' = subs + 1
  /\ request' = [event |-> "subscribe_job_status", sid |-> s, job_id |-> j]
  /\ IF j = NoneMsg
     THEN /\ inbox' = emit_to_sender(inbox, s,
                         [event |-> "error", message |-> "job_id is required"])
          /\ rooms' = rooms
     ELSE IF ~JobFound(j)
     THEN /\ inbox' = emit_to_sender(inbox, s,
                         [event |-> "error", message |-> "Job not found"])
          /\ rooms' = rooms
     ELSE /\ rooms' = [rooms EXCEPT ![j] = @ \cup {s}]
          /\ inbox' = emit_to_sender(inbox, s, StatusSnapshot(j, JobRow(j)))
  /\ UNCHANGED <<pipeVars, callVars, now, job_exists, time_limit, last_push,
                 processing_history, svcVars, emits>>

\* handle_job_status_unsubscription: with a job_id the connection leaves the
\* room of that name and is sent 'unsubscribed'; without one nothing happens
unsubscribe_job_status(s, j) ==
  /\ subs < MaxSubscribes
  /\ subs' = subs + 1
  /\ j # NoneMsg
  /\ request' = [event |-> "unsubscribe_job_status", sid |-> s, job_id |-> j]
  /\ rooms' = [r \in DOMAIN rooms |-> IF r = j THEN rooms[r] \ {s} ELSE rooms[r]]
  /\ inbox' = emit_to_sender(inbox, s, [event |-> "unsubscribed", job_id |-> j])
  /\ UNCHANGED <<pipeVars, callVars, now, job_exists, time_limit, last_push,
                 processing_history, svcVars, emits>>

\* one step of the upload request
UploadStep ==
  \/ UploadQueue
  \/ UploadEnqueue
  \/ UploadEnqueueFails

\* one step of a worker that runs process_audio_task
TaskStep(w) ==
  \/ Deliver(w)
  \/ TaskStart(w)
  \/ update_progress(w)
  \/ StageReturns(w)
  \/ StageRaises(w)
  \/ TaskComplete(w)
  \/ TaskExcept(w)
  \/ AutoRetry(w)
  \/ RetryGivesUp(w)
  \/ on_failure(w)

\* one step of a cancel request
CancelStep(c) ==
  \/ CancelLoad(c)
  \/ CancelCommit(c)

\* every message is delivered once
Next ==
  \/ UploadStep
  \/ \E w \in Workers : TaskStep(w)
  \/ \E c \in Clients : CancelStep(c)

\* the broker delivers at least once; no client cancels
NextAtLeastOnce ==
  \/ UploadStep
  \/ \E w \in Workers : TaskStep(w)
  \/ \E w \in Workers : Redeliver(w)

\* the time limits of celery_app.conf expire on running tasks; no client
\* cancels
NextTimeLimit ==
  \/ UploadStep
  \/ \E w \in Workers : TaskStep(w)
  \/ \E w \in Workers : SoftTimeLimit(w)
  \/ \E w \in Workers : HardTimeLimit(w)

\* the worker process that is given the tasks of the job while a client
\* follows it, and the connection of that client
OneWorker == {"w1"}
Followers == {"s1"}

\* a client follows the job over Socket.IO while the task runs and is
\* retried: it subscribes to the job, and subscribes again when it wants the
\* current status; no client cancels
NextSubscriber ==
  \/ UploadStep
  \/ \E w \in OneWorker : TaskStep(w)
  \/ \E s \in Followers : subscribe_job_status(s, TheJob)

\* process_audio_task is run for a job_id, as process_audio_task.run(id)
\* and .apply(args=[id]) of the tests run it: the job is queued, or the
\* jobs table holds no row with that id
InitRun ==
  /\ job = [NewJob EXCEPT !.status = QUEUED]
  /\ job_exists \in BOOLEAN
  /\ upc = "done"
  /\ queue = [r \in 0..(max_retries + 1) |-> IF r = 0 THEN 1 ELSE 0]
  /\ pc = [w \in Workers |-> "idle"]
  /\ retries = [w \in Workers |-> 0]
  /\ exc = [w \in Workers |-> NoExc]
  /\ task_job_id = [w \in Workers |-> FALSE]
  /\ redelivered = 0
  /\ creq = [c \in Clients |-> IdleRequest]
  /\ cresult = [c \in Clients |-> "none"]
  /\ cancels = 0
  /\ failure_log = {}
  /\ CallIdle
  /\ now = 1
  /\ time_limit = [w \in Workers |-> "none"]
  /\ last_push = NoPush
  /\ processing_history = <<>>
  /\ rooms = [j \in JobIds |-> {}]
  /\ inbox = [s \in Connections |-> <<>>]
  /\ subs = 0
  /\ emits = 0
  /\ request = NoRequest
  /\ SvcIdle

\* the workers run the task and its retries; nothing else acts
NextRun == \E w \in Workers : TaskStep(w)

Spec == Init /\ [][Next]_vars

SpecRun == InitRun /\ [][NextRun]_vars

\* the status_data a caller passes to emit_job_status_update
StatusData ==
  {CancelledUpdate,
   [status |-> PROCESSING, progress |-> 10, processing_phase |-> "preprocessing"]}

\* a call of emit_job_status_update(job_id, status_data)
publish_job_status_update(j, d, ok) ==
  /\ emits < MaxEmits
  /\ emits' = emits + 1
  /\ inbox' = emit_job_status_update(j, d, ok)
  /\ UNCHANGED <<pipeVars, callVars, now, job_exists, time_limit, last_push,
                 processing_history, svcVars, rooms, subs, request>>

\* a call of emit_queue_position_update(job_id, position)
publish_queue_position_update(j, position, ok) ==
  /\ emits < MaxEmits
  /\ emits' = emits + 1
  /\ inbox' = emit_queue_position_update(j, position, ok)
  /\ UNCHANGED <<pipeVars, callVars, now, job_exists, time_limit, last_push,
                 processing_history, svcVars, rooms, subs, request>>

\* a call of emit_processing_error(job_id, error_message)
publish_processing_error(j, error_message, ok) ==
  /\ emits < MaxEmits
  /\ emits' = emits + 1
  /\ inbox' = emit_processing_error(j, error_message, ok)
  /\ UNCHANGED <<pipeVars, callVars, now, job_exists, time_limit, last_push,
                 processing_history, svcVars, rooms, subs, request>>

\* the connections subscribe and unsubscribe with any job_id while events
\* are published for the jobs
NextChannels ==
  \/ \E s \in Connections, j \in JobIdArgs : subscribe_job_status(s, j)
  \/ \E s \in Connections, j \in JobIdArgs : unsubscribe_job_status(s, j)
  \/ \E j \in JobIds, d \in StatusData, ok \in BOOLEAN :
       publish_job_status_update(j, d, ok)
  \/ \E j \in JobIds, ok \in BOOLEAN : publish_queue_position_update(j, 1, ok)
  \/ \E j \in JobIds, ok \in BOOLEAN :
       publish_processing_error(j, "Processing failed", ok)

SpecChannels == Init /\ [][NextChannels]_vars

\* rows the jobs table can hold for the job when a client subscribes: just
\* uploaded with its queue position stored by get_queue_position, queued,
\* processing, failed with the text of the exception, and cancelled
StoredJobs ==
  {[NewJob EXCEPT !.queue_position = 1],
   [NewJob EXCEPT !.status = QUEUED],
   [NewJob EXCEPT !.status = PROCESSING, !.progress = 30,
                  !.queue_position = 1],
   [NewJob EXCEPT !.status = FAILED, !.progress = 30,
                  !.error_message = "API timeout"],
   [NewJob EXCEPT !.status = CANCELLED, !.can_cancel = FALSE,
                  !.completed_at = 1]}

\* the job is stored in one of these states, or not at all, and nothing
\* runs but the Socket.IO handlers
InitSnapshot ==
  /\ job \in StoredJobs
  /\ job_exists \in BOOLEAN
  /\ upc = "done"
  /\ queue = [r \in 0..(max_retries + 1) |-> 0]
  /\ pc = [w \in Workers |-> "idle"]
  /\ retries = [w \in Workers |-> 0]
  /\ exc = [w \in Workers |-> NoExc]
  /\ task_job_id = [w \in Workers |-> FALSE]
  /\ redelivered = 0
  /\ creq = [c \in Clients |-> IdleRequest]
  /\ cresult = [c \in Clients |-> "none"]
  /\ cancels = 0
  /\ failure_log = {}
  /\ CallIdle
  /\ now = 1
  /\ time_limit = [w \in Workers |-> "none"]
  /\ last_push = NoPush
  /\ processing_history = <<>>
  /\ rooms = [j \in JobIds |-> {}]
  /\ inbox = [s \in Connections |-> <<>>]
  /\ subs = 0
  /\ emits = 0
  /\ request = NoRequest
  /\ SvcIdle

\* the connections subscribe and unsubscribe with any job_id
NextSnapshot ==
  \/ \E s \in Connections, j \in JobIdArgs : subscribe_job_status(s, j)
  \/ \E s \in Connections, j \in JobIdArgs : unsubscribe_job_status(s, j)

SpecSnapshot == InitSnapshot /\ [][NextSnapshot]_vars

\* file sizes are counted in KB: file_size_mb = kb / KBPerMB
KBPerMB == 1024

\* the largest file size tried, in MB
MaxFileMB == 25

\* file_size_mb arguments tried: every KB up to 400 KB, and every 128 KB
\* up to MaxFileMB
FileSizesKB ==
  (0..400) \cup {k * 128 : k \in 0..(MaxFileMB * 8)}

\* sum of processing_duration over the rows
RECURSIVE total_duration(_)
total_duration(rows) ==
  IF rows = <<>> THEN 0
  ELSE rows[1].processing_duration + total_duration(Tail(rows))

\* ProcessingHistory.get_average_processing_time(file_size_mb): the rows
\* whose file_size is within 20% of the size, as the total of their
\* durations and their number; n = 0 stands for the None it returns
get_average_processing_time(kb, table) ==
  LET file_size_bytes == kb * 1024
      size_range == file_size_bytes \div 5
      min_size == file_size_bytes - size_range
      max_size == file_size_bytes + size_range
      records == SelectSeq(table, LAMBDA r : /\ r.file_size >= min_size
                                            /\ r.file_size <= max_size)
  IN [total |-> total_duration(records), n |-> Len(records)]

Max(a, b) == IF a >= b THEN a ELSE b

Min(a, b) == IF a <= b THEN a ELSE b

\* an estimate that has no minimum
estimate_processing_time_no_minimum(kb, table) ==
  LET historical_avg == get_average_processing_time(kb, table)
  IN IF historical_avg.n > 0 /\ historical_avg.total > 0
     THEN (historical_avg.total * 12) \div (historical_avg.n * 10)
     ELSE Min((kb * 90) \div KBPerMB, 1800)

\* ProgressService.estimate_processing_time(file_size_mb): int(avg * 1.2)
\* when there is a historical average that is not zero, otherwise
\* max(30, min(int(file_size_mb * 90), 1800))
estimate_processing_time(kb, table) ==
  LET historical_avg == get_average_processing_time(kb, table)
  IN IF historical_avg.n > 0 /\ historical_avg.total > 0
     THEN (historical_avg.total * 12) \div (historical_avg.n * 10)
     ELSE LET base_time == (kb * 90) \div KBPerMB
              min_time == 30
              max_time == 1800
          IN Max(min_time, Min(base_time, max_time))

\* the processing_history tables tried: empty, one row of a 5 MB file, and
\* rows of a 5 MB and of a 300 KB file
HistoryTables ==
  {<<>>,
   <<[file_size |-> 5 * 1024 * 1024, processing_duration |-> 120]>>,
   <<[file_size |-> 5 * 1024 * 1024, processing_duration |-> 120],
     [file_size |-> 300 * 1024, processing_duration |-> 20]>>}

\* the estimate is asked for a file size, with some processing history
InitEstimate ==
  /\ PipeIdle
  /\ CallIdle
  /\ now = 1
  /\ job_exists = TRUE
  /\ time_limit = [w \in Workers |-> "none"]
  /\ last_push = NoPush
  /\ processing_history \in HistoryTables
  /\ rooms = [j \in JobIds |-> {}]
  /\ inbox = [s \in Connections |-> <<>>]
  /\ subs = 0
  /\ emits = 0
  /\ request = NoRequest
  /\ size_kb \in FileSizesKB
  /\ estimate = NoEstimate
  /\ RedisIdle

\* ProgressService.estimate_processing_time(file_size_mb) is called
CallEstimate ==
  /\ estimate = NoEstimate
  /\ estimate' = estimate_processing_time(size_kb, processing_history)
  /\ UNCHANGED <<pipeVars, callVars, now, job_exists, time_limit, last_push,
                 processing_history, rtVars, size_kb, redisVars>>

NextEstimate == CallEstimate

SpecEstimate == InitEstimate /\ [][NextEstimate]_vars

----------------------------------------------------------------------------
(* GracefulRedisService *)

\* number of calls of set, get, delete and exists made
MaxOps == 3

\* the last clock value of the runs of the service
MaxTime == 3

\* json.dumps of the dicts and lists tried
json_dumps(v) ==
  CASE v.text = "{'a': 1}" -> "{\"a\": 1}"
    [] v.text = "[1, 2]" -> "[1, 2]"
    [] OTHER -> v.text

\* the texts tried that json.loads accepts, and the value it returns
JsonValues ==
  [t \in {"123", "1.5", "true", "{\"a\": 1}", "[1, 2]"} |->
     CASE t = "123" -> PyInt("123")
       [] t = "1.5" -> [type |-> "float", text |-> "1.5"]
       [] t = "true" -> PyTrue
       [] t = "{\"a\": 1}" -> [type |-> "dict", text |-> "{'a': 1}"]
       [] t = "[1, 2]" -> [type |-> "list", text |-> "[1, 2]"]]

\* redis-py accepts bytes, str, int and float values and raises DataError
\* for the others
Encodable(v) == v.type \in {"str", "int", "float"}

\* the bytes redis-py sends for a str, an int or a float
encode(v) == v.text

\* get, the Redis branch: json.loads of the decoded bytes, and the decoded
\* bytes themselves when json.loads raises JSONDecodeError
decode_value(bytes) ==
  IF bytes \in DOMAIN JsonValues THEN JsonValues[bytes] ELSE PyStr(bytes)

\* `self.backend_type in [REDIS, FAKE_REDIS] and self.redis_client`
UsesClient ==
  backend_type \in {REDIS, FAKE_REDIS} /\ redis_client # NoClient

\* what the server holds for a key at time t: Redis drops a key whose
\* expiry has come
Held(c, k, t) ==
  LET e == redis_data[c][k]
  IN IF e.present /\ (e.due = 0 \/ t < e.due) THEN e ELSE NoEntry

\* Timer.cancel(): a timer that has not passed its wait never calls its
\* function; cancel has no effect on one that has
cancel(ts, t) ==
  IF t # 0 /\ ts[t].state = "waiting"
  THEN [ts EXCEPT ![t].state = "cancelled"]
  ELSE ts

\* GracefulRedisService.set(key, value, ex): on a client, dicts and lists
\* go through json.dumps and the answer of the server is returned, False
\* when the call raises; in memory the value is stored and, when ex is
\* given, the timer of the key is cancelled and a new one is started
set(k, v, ex) ==
  /\ ops < MaxOps
  /\ ops' = ops + 1
  /\ IF UsesClient
     THEN LET value == IF v.type \in {"dict", "list"}
                       THEN PyStr(json_dumps(v))
                       ELSE v
              ok == reachable[redis_client] /\ Encodable(value)
          IN /\ redis_data' =
                  IF ok
                  THEN [redis_data EXCEPT ![redis_client][k] =
                          [present |-> TRUE, bytes |-> encode(value),
                           due |-> IF ex = NoEx THEN 0 ELSE now + ex]]
                  ELSE redis_data
             /\ reply' = [op |-> "set", key |-> k, value |-> PyBool(ok)]
             /\ UNCHANGED memVars
     ELSE /\ fallback_storage' = [fallback_storage EXCEPT ![k] = v]
          /\ IF ex # NoEx
             THEN /\ timers' = Append(cancel(timers, expiry_timers[k]),
                                 [key |-> k, due |-> now + ex, state |-> "waiting"])
                  /\ expiry_timers' = [expiry_timers EXCEPT ![k] = Len(timers')]
             ELSE UNCHANGED <<timers, expiry_timers>>
          /\ reply' = [op |-> "set", key |-> k, value |-> PyTrue]
          /\ UNCHANGED redis_data
  /\ last_write' = [last_write EXCEPT ![k] =
                      [op |-> "set", value |-> v, ex |-> ex, at |-> now,
                       timer |-> IF ~UsesClient /\ ex # NoEx
                                 THEN Len(timers) + 1 ELSE 0]]
  /\ UNCHANGED <<appVars, now, connVars, rq, clockVars>>

\* GracefulRedisService.get(key): on a client the decoded value or None,
\* None too when the call raises; in memory fallback_storage.get(key)
get(k) ==
  /\ ops < MaxOps
  /\ ops' = ops + 1
  /\ LET value ==
           IF UsesClient
           THEN IF reachable[redis_client] /\ Held(redis_client, k, now).present
                THEN decode_value(Held(redis_client, k, now).bytes)
                ELSE PyNone
           ELSE fallback_storage[k]
     IN reply' = [op |-> "get", key |-> k, value |-> value]
  /\ UNCHANGED <<appVars, now, connVars, memVars, redis_data, last_write,
                 rq, clockVars>>

\* GracefulRedisService.delete(key): the number of keys deleted, 0 when the
\* call raises; in memory the timer of the key is cancelled and forgotten
delete(k) ==
  /\ ops < MaxOps
  /\ ops' = ops + 1
  /\ IF UsesClient
     THEN LET ok == reachable[redis_client]
              n == IF ok /\ Held(redis_client, k, now).present THEN "1" ELSE "0"
          IN /\ redis_data' =
                  IF ok
                  THEN [redis_data EXCEPT ![redis_client][k] = NoEntry]
                  ELSE redis_data
             /\ reply' = [op |-> "delete", key |-> k, value |-> PyInt(n)]
             /\ UNCHANGED memVars
     ELSE /\ fallback_storage' = [fallback_storage EXCEPT ![k] = PyNone]
          /\ timers' = cancel(timers, expiry_timers[k])
          /\ expiry_timers' = [expiry_timers EXCEPT ![k] = 0]
          /\ reply' = [op |-> "delete", key |-> k,
                       value |-> PyInt(IF fallback_storage[k] # PyNone
                                       THEN "1" ELSE "0")]
          /\ UNCHANGED redis_data
  /\ last_write' = [last_write EXCEPT ![k] =
                      [op |-> "delete", value |-> PyNone, ex |-> NoEx,
                       at |-> now, timer |-> 0]]
  /\ UNCHANGED <<appVars, now, connVars, rq, clockVars>>

\* GracefulRedisService.exists(key): the number of keys that exist, 0 when
\* the call raises
exists(k) ==
  /\ ops < MaxOps
  /\ ops' = ops + 1
  /\ LET n == IF UsesClient
              THEN IF reachable[redis_client]
                      /\ Held(redis_client, k, now).present
                   THEN "1" ELSE "0"
              ELSE IF fallback_storage[k] # PyNone THEN "1" ELSE "0"
     IN reply' = [op |-> "exists", key |-> k, value |-> PyInt(n)]
  /\ UNCHANGED <<appVars, now, connVars, memVars, redis_data, last_write,
                 rq, clockVars>>

\* Timer.run: finished.wait(interval) has timed out and finished is not
\* set, so the function is about to be called
TimerWakes(t) ==
  /\ timers[t].state = "waiting"
  /\ now >= timers[t].due
  /\ timers' = [timers EXCEPT ![t].state = "running"]
  /\ UNCHANGED <<appVars, now, connVars, fallback_storage, expiry_timers,
                 opVars, clockVars>>

\* expire_key: self.fallback_storage.pop(key, None)
ExpirePopsValue(t) ==
  /\ timers[t].state = "running"
  /\ fallback_storage' = [fallback_storage EXCEPT ![timers[t].key] = PyNone]
  /\ timers' = [timers EXCEPT ![t].state = "popped"]
  /\ UNCHANGED <<appVars, now, connVars, expiry_timers, opVars, clockVars>>

\* expire_key: self.expiry_timers.pop(key, None)
ExpirePopsTimer(t) ==
  /\ timers[t].state = "popped"
  /\ expiry_timers' = [expiry_timers EXCEPT ![timers[t].key] = 0]
  /\ timers' = [timers EXCEPT ![t].state = "done"]
  /\ UNCHANGED <<appVars, now, connVars, fallback_storage, opVars, clockVars>>

\* one step of the thread of a timer
TimerStep(t) ==
  \/ TimerWakes(t)
  \/ ExpirePopsValue(t)
  \/ ExpirePopsTimer(t)

\* a second passes; the threads of the timers that are due run first
TimePasses ==
  /\ now < MaxTime
  /\ \A t \in DOMAIN timers :
       \/ timers[t].state \in {"cancelled", "done"}
       \/ timers[t].state = "waiting" /\ timers[t].due > now
  /\ now' = now + 1
  /\ UNCHANGED <<appVars, redisVars>>

\* the values stored in the runs of the in-memory fallback
MemoryValues == {PyStr("v1"), PyStr("v2")}

\* request threads call the service on its in-memory fallback while the
\* threads of its timers run
NextMemory ==
  \/ \E k \in Keys, v \in MemoryValues, ex \in Expirations : set(k, v, ex)
  \/ \E k \in Keys : get(k)
  \/ \E k \in Keys : delete(k)
  \/ \E k \in Keys : exists(k)
  \/ \E t \in DOMAIN timers : TimerStep(t)
  \/ TimePasses

\* every strategy but the last has failed: the service is on its in-memory
\* fallback
InitMemory ==
  /\ PipeIdle
  /\ CallIdle
  /\ AppIdle
  /\ EstIdle
  /\ RedisIdle
  /\ now = 1

SpecMemory == InitMemory /\ [][NextMemory]_vars

\* the values stored and read back: strings, among them strings that are
\* JSON texts, numbers, a dict and a list
RoundTripValues ==
  {PyStr("hello"), PyStr("123"), PyStr("true"), PyStr("{\"a\": 1}"),
   PyInt("123"), [type |-> "float", text |-> "1.5"],
   [type |-> "dict", text |-> "{'a': 1}"], [type |-> "list", text |-> "[1, 2]"]}

\* the backends a service can be on after its initialization, each with
\* the client it then has
ActiveBackends ==
  {[type |-> REDIS, client |-> "configured"],
   [type |-> REDIS, client |-> "localhost"],
   [type |-> FAKE_REDIS, client |-> "fake"],
   [type |-> MEMORY, client |-> NoClient]}

\* the service is on one of its backends, which is reachable and empty
InitRoundTrip ==
  /\ PipeIdle
  /\ CallIdle
  /\ AppIdle
  /\ EstIdle
  /\ now = 1
  /\ \E b \in ActiveBackends :
       /\ backend_type = b.type
       /\ redis_client = b.client
       /\ reachable = [c \in Servers |-> c \in {"fake", b.client}]
       /\ use_fake_redis = (b.type = FAKE_REDIS)
  /\ probe_raises = {}
  /\ conn = Sleeping
  /\ uptime = 0
  /\ monitor_log = NoLog
  /\ last_connection_attempt = NoTime
  /\ fallback_storage = [k \in Keys |-> PyNone]
  /\ expiry_timers = [k \in Keys |-> 0]
  /\ timers = <<>>
  /\ redis_data = [c \in Servers |-> [k \in Keys |-> NoEntry]]
  /\ last_write = [k \in Keys |-> NoWrite]
  /\ reply = NoReply
  /\ ops = 0
  /\ rq = NoCall

\* values are stored without expiry and read back
NextRoundTrip ==
  \/ \E k \in Keys, v \in RoundTripValues : set(k, v, NoEx)
  \/ \E k \in Keys : get(k)

SpecRoundTrip == InitRoundTrip /\ [][NextRoundTrip]_vars

\* _initialize_connection: the strategies, in the order they are tried
strategies == <<"configured", "localhost", "fake", "memory">>

\* the strategy tried after this one
NextStrategy(c) ==
  CASE c = "configured" -> "localhost"
    [] c = "localhost" -> "fake"
    [] OTHER -> "memory"

\* where the connecting thread goes when a strategy returns True: out of
\* _initialize_connection and of __init__, which starts the monitor, or
\* back into the loop of the monitor
Connected(cn) == Sleeping

\* where it goes when a strategy returns False: to the next strategy of
\* _initialize_connection; in _attempt_reconnection to localhost after
\* configured, and back into the loop of the monitor after localhost
NotConnected(cn) ==
  IF cn.caller = "init"
  THEN [cn EXCEPT !.pc = "call", !.strategy = NextStrategy(cn.strategy)]
  ELSE IF cn.strategy = "configured"
       THEN [cn EXCEPT !.pc = "call", !.strategy = "localhost"]
       ELSE Sleeping

\* a search that ends when a strategy raises
Raised_stops_search(cn) == Sleeping

\* where it goes when a strategy raises: _initialize_connection logs the
\* exception and continues with the next strategy; the exception leaves
\* _attempt_reconnection and is logged by the loop of the monitor
Raised(cn) ==
  IF cn.caller = "init"
  THEN [cn EXCEPT !.pc = "call", !.strategy = NextStrategy(cn.strategy)]
  ELSE Sleeping

\* a connection attempt that drops the client it had when the new one
\* does not answer
TryRedis_drops_client ==
  /\ conn.pc = "call"
  /\ conn.strategy \in {"configured", "localhost"}
  /\ IF conn.strategy \in probe_raises
     THEN /\ conn' = Raised(conn)
          /\ UNCHANGED redis_client
     ELSE IF reachable[conn.strategy]
     THEN /\ redis_client' = conn.strategy
          /\ conn' = [conn EXCEPT !.pc = "set_type"]
     ELSE /\ conn' = NotConnected(conn)
          /\ redis_client' = NoClient
  /\ UNCHANGED <<appVars, now, backend_type, last_connection_attempt, envVars,
                 memVars, opVars, clockVars>>

\* _try_configured_redis, _try_localhost_redis: the client is created and
\* pinged; when the ping answers, self.redis_client = client
TryRedis ==
  /\ conn.pc = "call"
  /\ conn.strategy \in {"configured", "localhost"}
  /\ IF conn.strategy \in probe_raises
     THEN /\ conn' = Raised(conn)
          /\ UNCHANGED redis_client
     ELSE IF reachable[conn.strategy]
     THEN /\ redis_client' = conn.strategy
          /\ conn' = [conn EXCEPT !.pc = "set_type"]
     ELSE /\ conn' = NotConnected(conn)
          /\ UNCHANGED redis_client
  /\ UNCHANGED <<appVars, now, backend_type, last_connection_attempt, envVars,
                 memVars, opVars, clockVars>>

\* _try_configured_redis, _try_localhost_redis:
\* self.backend_type = RedisBackend.REDIS; return True
SetBackendType ==
  /\ conn.pc = "set_type"
  /\ backend_type' = REDIS
  /\ conn' = Connected(conn)
  /\ UNCHANGED <<appVars, now, redis_client, last_connection_attempt, envVars,
                 memVars, opVars, clockVars>>

\* _try_fake_redis: False unless enabled by the environment; False when
\* fakeredis cannot be imported or FakeRedis() raises
TryFakeRedis ==
  /\ conn.pc = "call"
  /\ conn.strategy = "fake"
  /\ IF use_fake_redis /\ reachable["fake"]
     THEN /\ redis_client' = "fake"
          /\ backend_type' = FAKE_REDIS
          /\ conn' = Connected(conn)
     ELSE /\ conn' = NotConnected(conn)
          /\ UNCHANGED <<redis_client, backend_type>>
  /\ UNCHANGED <<appVars, now, last_connection_attempt, envVars, memVars,
                 opVars, clockVars>>

\* _use_memory_fallback
UseMemoryFallback ==
  /\ conn.pc = "call"
  /\ conn.strategy = "memory"
  /\ redis_client' = NoClient
  /\ backend_type' = MEMORY
  /\ conn' = Connected(conn)
  /\ UNCHANGED <<appVars, now, last_connection_attempt, envVars, memVars,
                 opVars, clockVars>>

\* one step of _initialize_connection
NextInit ==
  \/ TryRedis
  \/ SetBackendType
  \/ TryFakeRedis
  \/ UseMemoryFallback

\* __init__ has set its fields and is about to call
\* _initialize_connection; each server answers, refuses, or makes its
\* client raise something else, and fakeredis is enabled or not, and works
\* or not
InitInit ==
  /\ PipeIdle
  /\ CallIdle
  /\ AppIdle
  /\ EstIdle
  /\ now = 1
  /\ backend_type = MEMORY
  /\ redis_client = NoClient
  /\ last_connection_attempt = NoTime
  /\ conn = [pc |-> "call", strategy |-> strategies[1], caller |-> "init",
             slept |-> 0]
  /\ uptime = 0
  /\ monitor_log = NoLog
  /\ reachable \in [Servers -> BOOLEAN]
  /\ probe_raises \in SUBSET {"configured", "localhost"}
  /\ use_fake_redis \in BOOLEAN
  /\ fallback_storage = [k \in Keys |-> PyNone]
  /\ expiry_timers = [k \in Keys |-> 0]
  /\ timers = <<>>
  /\ redis_data = [c \in Servers |-> [k \in Keys |-> NoEntry]]
  /\ last_write = [k \in Keys |-> NoWrite]
  /\ reply = NoReply
  /\ ops = 0
  /\ rq = NoCall

SpecInit == InitInit /\ [][NextInit]_vars

\* the monitor sleeps 30 seconds between two checks
check_interval == 30

\* GracefulRedisService.connection_retry_interval
connection_retry_interval == 30

\* the seconds that pass in one step of the clock, and how many such steps
\* the runs of the monitor take
TickSeconds == 15
MaxTicks == 4

\* a ping that answers True whatever the server does
ping_always_true ==
  /\ ops < MaxOps
  /\ ops' = ops + 1
  /\ reply' = [op |-> "ping", key |-> "", value |-> PyTrue]
  /\ UNCHANGED <<appVars, now, connVars, memVars, redis_data, last_write,
                 rq, clockVars>>

\* GracefulRedisService.ping(): True in memory; on a client True when the
\* server answers and False when the call raises
ping ==
  /\ ops < MaxOps
  /\ ops' = ops + 1
  /\ reply' = [op |-> "ping", key |-> "",
               value |-> PyBool(UsesClient => reachable[redis_client])]
  /\ UNCHANGED <<appVars, now, connVars, memVars, redis_data, last_write,
                 rq, clockVars>>

\* health_monitor: time.sleep(30) has returned; when the backend is Redis
\* and there is a client, the client is pinged, and a ping that raises a
\* RedisError is logged and leads into _attempt_reconnection
HealthCheck ==
  /\ conn.pc = "sleep"
  /\ conn.caller = "monitor"
  /\ conn.slept >= check_interval
  /\ IF backend_type = REDIS /\ redis_client # NoClient
        /\ ~reachable[redis_client]
     THEN /\ conn' = [Sleeping EXCEPT !.pc = "reconnect"]
          /\ monitor_log' = [monitor_log EXCEPT !.lost = @ + 1]
     ELSE /\ conn' = Sleeping
          /\ UNCHANGED monitor_log
  /\ UNCHANGED <<appVars, now, backend_type, redis_client,
                 last_connection_attempt, envVars, memVars, opVars, uptime>>

\* a reconnection that does not look at the time of the last attempt
attempt_reconnection_at_once ==
  /\ conn.pc = "reconnect"
  /\ last_connection_attempt' = now
  /\ monitor_log' = [monitor_log EXCEPT !.attempting = @ + 1,
                                        !.attempted_at = uptime]
  /\ conn' = [pc |-> "call", strategy |-> "configured",
              caller |-> "reconnect", slept |-> 0]
  /\ UNCHANGED <<appVars, now, backend_type, redis_client, envVars, memVars,
                 opVars, uptime>>

\* _attempt_reconnection: it returns when the last attempt is less than
\* connection_retry_interval seconds ago by datetime.now(); otherwise it
\* notes the time, logs, and tries configured, then localhost
attempt_reconnection ==
  /\ conn.pc = "reconnect"
  /\ IF /\ last_connection_attempt # NoTime
        /\ now - last_connection_attempt < connection_retry_interval
     THEN /\ conn' = Sleeping
          /\ UNCHANGED <<last_connection_attempt, monitor_log>>
     ELSE /\ last_connection_attempt' = now
          /\ monitor_log' = [monitor_log EXCEPT !.attempting = @ + 1,
                                                !.attempted_at = uptime]
          /\ conn' = [pc |-> "call", strategy |-> "configured",
                      caller |-> "reconnect", slept |-> 0]
  /\ UNCHANGED <<appVars, now, backend_type, redis_client, envVars, memVars,
                 opVars, uptime>>

\* TickSeconds pass, on the clock of time.sleep and on that of
\* datetime.now()
MonitorTick ==
  /\ uptime < MaxTicks * TickSeconds
  /\ uptime' = uptime + TickSeconds
  /\ now' = now + TickSeconds
  /\ conn' = IF conn.pc = "sleep"
             THEN [conn EXCEPT !.slept = Min(@ + TickSeconds, check_interval)]
             ELSE conn
  /\ UNCHANGED <<appVars, backend_type, redis_client, last_connection_attempt,
                 envVars, memVars, opVars, monitor_log>>

\* the local time datetime.now() reads is set back by half a minute; this
\* happens once
ClockSetBack ==
  /\ now = uptime + 1
  /\ now > 30
  /\ now' = now - 30
  /\ UNCHANGED <<appVars, redisVars>>

\* a Redis server stops answering, or answers again
ServerChanges(c) ==
  /\ c \in {"configured", "localhost"}
  /\ reachable' = [reachable EXCEPT ![c] = ~@]
  /\ UNCHANGED <<appVars, now, backend_type, redis_client,
                 last_connection_attempt, conn, probe_raises, use_fake_redis,
                 memVars, opVars, clockVars>>

\* one step of the monitor thread
MonitorStep ==
  \/ HealthCheck
  \/ attempt_reconnection
  \/ TryRedis
  \/ SetBackendType

\* __init__ has returned and the monitor has started: the service is on
\* one of its backends; each Redis server answers or not, and the client
\* of each raises or not when it is created
InitMonitor ==
  /\ PipeIdle
  /\ CallIdle
  /\ AppIdle
  /\ EstIdle
  /\ now = 1
  /\ \E b \in ActiveBackends :
       /\ backend_type = b.type
       /\ redis_client = b.client
       /\ use_fake_redis = (b.type = FAKE_REDIS)
  /\ reachable \in {r \in [Servers -> BOOLEAN] : r["fake"]}
  /\ probe_raises \in SUBSET {"configured", "localhost"}
  /\ conn = Sleeping
  /\ uptime = 0
  /\ monitor_log = NoLog
  /\ last_connection_attempt = NoTime
  /\ fallback_storage = [k \in Keys |-> PyNone]
  /\ expiry_timers = [k \in Keys |-> 0]
  /\ timers = <<>>
  /\ redis_data = [c \in Servers |-> [k \in Keys |-> NoEntry]]
  /\ last_write = [k \in Keys |-> NoWrite]
  /\ reply = NoReply
  /\ ops = 0
  /\ rq = NoCall

\* the monitor runs while the servers come and go and the local time is set
\* back
NextMonitor ==
  \/ MonitorStep
  \/ MonitorTick
  \/ ClockSetBack
  \/ \E c \in Servers : ServerChanges(c)

SpecMonitor == InitMonitor /\ [][NextMonitor]_vars

\* the value the callers store while the monitor runs
MonitorValues == {PyStr("v1")}

\* number of calls the request threads make while the monitor runs
MaxCalls == 2

\* a call of the service by a request thread
ServiceCall ==
  /\ ops < MaxCalls
  /\ \/ \E k \in Keys, v \in MonitorValues : set(k, v, NoEx)
     \/ \E k \in Keys : get(k)
     \/ \E k \in Keys : delete(k)
     \/ \E k \in Keys : exists(k)
     \/ ping

\* request threads call the service while the monitor runs and the servers
\* come and go
NextOutage ==
  \/ MonitorStep
  \/ MonitorTick
  \/ \E c \in Servers : ServerChanges(c)
  \/ ServiceCall

\* the service has ended its initialization on a Redis server
InitOutage ==
  /\ InitMonitor
  /\ backend_type = REDIS

SpecOutage == InitOutage /\ [][NextOutage]_vars

\* get_redis_service has returned the service: __init__ is over
Published == conn.caller # "init"

\* set, get, delete, exists and ping begin alike: the thread reads
\* self.backend_type; when it is not REDIS or FAKE_REDIS the `and` is
\* decided and the memory branch is taken
CallReadsType ==
  /\ Published
  /\ rq.pc \in {"idle", "done"}
  /\ rq' = [pc |-> IF backend_type \in {REDIS, FAKE_REDIS}
                   THEN "read_client" ELSE "memory",
            type_seen |-> backend_type, client_seen |-> "", used |-> ""]
  /\ UNCHANGED <<appVars, now, connVars, memVars, redis_data, last_write,
                 reply, ops, clockVars>>

\* `... and self.redis_client`: the thread reads self.redis_client and
\* takes the client branch when it is not None
CallReadsClient ==
  /\ rq.pc = "read_client"
  /\ rq' = [rq EXCEPT !.pc = IF redis_client # NoClient
                             THEN "client" ELSE "memory",
                      !.client_seen = redis_client]
  /\ UNCHANGED <<appVars, now, connVars, memVars, redis_data, last_write,
                 reply, ops, clockVars>>

\* self.redis_client.set(...), .get(...), ...: the thread reads
\* self.redis_client again and calls it; on None the AttributeError is
\* caught by the except clause of the call
CallUsesClient ==
  /\ rq.pc = "client"
  /\ rq' = [rq EXCEPT !.pc = "done", !.used = redis_client]
  /\ UNCHANGED <<appVars, now, connVars, memVars, redis_data, last_write,
                 reply, ops, clockVars>>

\* the memory branch: the thread uses self.fallback_storage
CallUsesMemory ==
  /\ rq.pc = "memory"
  /\ rq' = [rq EXCEPT !.pc = "done", !.used = MEMORY]
  /\ UNCHANGED <<appVars, now, connVars, memVars, redis_data, last_write,
                 reply, ops, clockVars>>

\* one step of a request thread inside a call of the service
RequestStep ==
  \/ CallReadsType
  \/ CallReadsClient
  \/ CallUsesClient
  \/ CallUsesMemory

\* the service is created; then request threads call it, read by read,
\* while the monitor checks and reconnects and the servers come and go
NextThreads ==
  \/ TryFakeRedis
  \/ UseMemoryFallback
  \/ MonitorStep
  \/ MonitorTick
  \/ \E c \in Servers : ServerChanges(c)
  \/ RequestStep

SpecThreads == InitInit /\ [][NextThreads]_vars

SpecAtLeastOnce == Init /\ [][NextAtLeastOnce]_vars

SpecSubscriber == Init /\ [][NextSubscriber]_vars

\* the upload request runs to its end, and a worker process that is alive
\* takes the next step of the task it holds: a call to a collaborator
\* returns or raises
SpecTimeLimit ==
  /\ Init
  /\ [][NextTimeLimit]_vars
  /\ WF_vars(UploadStep)
  /\ \A w \in Workers : WF_vars(TaskStep(w))

----------------------------------------------------------------------------
(* Claims about Job.update_status, checked under SpecCall *)

C2_AllowedCallEffects ==
  (tres # "none" /\ ttarget \in valid_transitions(tprev.status))
    => /\ tres = "true"
       /\ tjob.status = ttarget
       /\ tjob.started_at =
            IF ttarget = PROCESSING /\ tprev.started_at = NoTime
            THEN tat ELSE tprev.started_at
       /\ tjob.progress = IF ttarget = COMPLETED THEN 100 ELSE tprev.progress
       /\ tjob.error_message =
            IF tmsg \in {NoneMsg, ""} THEN tprev.error_message ELSE tmsg

\* GeneratingOutput -> Completed on a job at 50%, called with an empty message
C2_Witness ==
  /\ tres = "true"
  /\ tprev.status = GENERATING_OUTPUT
  /\ ttarget = COMPLETED
  /\ tprev.progress = 50
  /\ tjob.progress = 100
  /\ tmsg = ""
  /\ tprev.error_message = "earlier error"

\* C17: after a call that returns true and whose target is a terminal status
\* (Completed, Failed or Cancelled) the completion timestamp of the job is
\* set.
C17_TerminalSetsCompletedAt ==
  (tres = "true" /\ ttarget \in {COMPLETED, FAILED, CANCELLED})
    => tjob.completed_at # NoTime

\* C18: update_status(PROCESSING) on an Uploaded job returns true, makes the
\* status processing and sets started_at; update_status(COMPLETED) on a
\* Processing job returns true, sets completed_at and makes the progress
\* 100; update_status(COMPLETED) on an Uploaded job returns false and leaves
\* the status uploaded.
C18_DirectTransitionsOfTheTests ==
  /\ (tres # "none" /\ tprev.status = UPLOADED /\ ttarget = PROCESSING)
       => /\ tres = "true"
          /\ tjob.status = PROCESSING
          /\ tjob.started_at # NoTime
  /\ (tres # "none" /\ tprev.status = PROCESSING /\ ttarget = COMPLETED)
       => /\ tres = "true"
          /\ tjob.completed_at # NoTime
          /\ tjob.progress = 100
  /\ (tres # "none" /\ tprev.status = UPLOADED /\ ttarget = COMPLETED)
       => /\ tres = "false"
          /\ tjob.status = UPLOADED

----------------------------------------------------------------------------
(* Claims about the status of a job while the program serves it *)

\* some worker takes a step of process_audio_task
WorkerActs == \E w \in Workers : pc'[w] # pc[w]

\* C3: every change of the job's status, by any actor, follows an edge of the
\* transition table, so a Completed, Failed or Cancelled job never changes
\* status again.
C3_StatusFollowsTable ==
  [][job'.status # job.status
       => job'.status \in valid_transitions(job.status)]_vars

\* C4: once the status is Cancelled, no step of the worker changes the
\* status, sets progress to 100 or overwrites the error message.
C4_CancellationWins ==
  [][(job.status = CANCELLED /\ WorkerActs)
       => /\ job'.status = CANCELLED
          /\ job'.progress # 100
          /\ job'.error_message = job.error_message]_vars

\* C5: a worker that reaches the stage boundary before the provider call
\* while the committed status is Cancelled persists no checkpoint there and
\* does not go on to call the provider.
C5_CancelSeenBeforeProvider ==
  [][\A w \in Workers :
       (pc[w] = "cp30" /\ job.status = CANCELLED /\ pc'[w] # pc[w])
         => (pc'[w] # "process_audio" /\ job' = job)]_vars

\* C6: a transition that returns true and is committed was decided on the
\* status the row holds when it is committed: no write another actor
\* committed since the row was loaded is overwritten.
C6_TransitionIsAtomic ==
  [][\A c \in Clients :
       (creq[c].pc = "loaded" /\ creq'[c].pc = "idle"
          /\ cresult'[c] = "200 cancelled")
         => creq[c].snap.status = job.status]_vars

\* C7: in every reachable state progress = 100 implies status = Completed.
C7_FullProgressOnlyWhenCompleted ==
  job.progress = 100 => job.status = COMPLETED

\* the exception types BaseProcessingTask.should_retry never retries
non_retryable == {"ValueError", "FileNotFoundError", "PermissionError"}

C9_NonRetryableNotRetried ==
  [][\A w \in Workers :
       (pc[w] = "autoretry" /\ pc'[w] # pc[w]
          /\ exc[w].type \in non_retryable)
         => (pc'[w] = "on_failure" /\ queue' = queue)]_vars

\* C10: at most one execution of process_audio_task is running for the job.
C10_OneExecutionAtATime ==
  Cardinality({w \in Workers : pc[w] # "idle"}) <= 1

----------------------------------------------------------------------------
(* Claims about checkpoints, notifications and the processing history *)

\* C12: at each checkpoint of an attempt (10, 20, 30, 90, 95, 100, in program
\* order) the stored progress and phase of the job are set to the values of
\* the checkpoint, and a status update for that checkpoint is then published
\* to the channel of the job.
C12_CheckpointPersistedThenPublished ==
  [][\A w \in Workers :
       (pc[w] \in DOMAIN Checkpoints /\ pc'[w] # pc[w])
         => /\ pc'[w] = Checkpoints[pc[w]].next
            /\ job'.progress = Checkpoints[pc[w]].progress
            /\ job'.processing_phase = Checkpoints[pc[w]].stage
            /\ last_push' = [at |-> pc[w], sent |-> TRUE]]_vars

\* C13: a push that fails never changes the outcome of the job.  At a
\* checkpoint whose push is not delivered the worker goes on to what follows
\* the checkpoint, no exception reaches the task, and the status and error
\* message of the job stay as they were, the progress being that of the
\* checkpoint; on_failure whose push is not delivered leaves the job Failed
\* with the error of the attempt; a cancel request whose push is not
\* delivered leaves the job Cancelled, not cancellable and with the
\* cancellation message, and is answered with success.
C13_FailedPushChangesNothing ==
  [][/\ \A w \in Workers :
          /\ (pc[w] \in DOMAIN Checkpoints /\ pc'[w] # pc[w]
                /\ ~last_push'.sent)
               => /\ pc'[w] = Checkpoints[pc[w]].next
                  /\ exc'[w] = exc[w]
                  /\ job'.status = job.status
                  /\ job'.error_message = job.error_message
                  /\ job'.progress = Checkpoints[pc[w]].progress
          /\ (pc[w] = "on_failure" /\ pc'[w] # pc[w] /\ task_job_id[w]
                /\ ~last_push'.sent)
               => /\ pc'[w] = "idle"
                  /\ job'.status = FAILED
                  /\ job'.error_message = exc[w].msg
                  /\ job'.progress = job.progress
     /\ \A c \in Clients :
          (creq[c].pc = "loaded" /\ creq'[c].pc = "idle"
             /\ last_push' # last_push
             /\ last_push' = [at |-> "cancel_job", sent |-> FALSE])
            => /\ cresult'[c] = "200 cancelled"
               /\ job'.status = CANCELLED
               /\ job'.can_cancel = FALSE
               /\ job'.error_message = "Job cancelled by user"]_vars

\* an attempt has passed its six checkpoints, the push of each one failing,
\* and has left the job Completed at 100
C13_Witness ==
  /\ last_push = [at |-> "cp100", sent |-> FALSE]
  /\ job.status = COMPLETED
  /\ job.progress = 100
  /\ job.error_message = NoneMsg
  /\ \A w \in Workers : pc[w] = "idle"

\* C14: when the status of the job changes to Completed exactly one sample
\* of the processing history has been appended for it, and the step that
\* makes the job Failed or Cancelled appends none.
C14_SampleAppendedBeforeCompleted ==
  [][/\ (job'.status = COMPLETED /\ job.status # COMPLETED)
          => Len(processing_history') = 1
     /\ (job'.status \in {FAILED, CANCELLED} /\ job.status # job'.status)
          => processing_history' = processing_history]_vars

\* the status updates of the job among the events a connection has received
StatusUpdates(box) ==
  SelectSeq(box, LAMBDA e : e.event = "job_status_update" /\ e.job_id = TheJob)

\* C15: the progress values of the status updates a connection has received
\* for the job never decrease, except that the last update received may be
\* a failure or cancellation update with a lower progress.
C15_ProgressNeverDecreases ==
  \A s \in Connections :
    LET u == StatusUpdates(inbox[s])
    IN \A i \in 1..(Len(u) - 1) :
         \/ u[i].progress <= u[i + 1].progress
         \/ (i + 1 = Len(u) /\ u[i + 1].status \in {FAILED, CANCELLED})

----------------------------------------------------------------------------
(* Claims about the cancel route *)

\* C16: a cancel request that acts on a job that is Completed, Failed or
\* Cancelled, whose can_cancel is false, or whose status does not allow the
\* transition to Cancelled, is rejected and changes nothing; on a job that
\* is Uploaded, Queued or Processing with can_cancel true it succeeds and
\* leaves status Cancelled, can_cancel false and progress 0.
C16_RequestCancel ==
  [][\A c \in Clients :
       (creq[c].pc = "loaded" /\ creq'[c].pc = "idle")
         => /\ (\/ job.status \in {COMPLETED, FAILED, CANCELLED}
                \/ ~job.can_cancel
                \/ CANCELLED \notin valid_transitions(job.status))
               => /\ cresult'[c] \in {"400 cannot cancel",
                                      "400 transition not allowed"}
                  /\ job' = job
                  /\ inbox' = inbox
            /\ (job.status \in {UPLOADED, QUEUED, PROCESSING}
                  /\ job.can_cancel)
               => /\ cresult'[c] = "200 cancelled"
                  /\ job'.status = CANCELLED
                  /\ job'.can_cancel = FALSE
                  /\ job'.progress = 0]_vars

----------------------------------------------------------------------------
(* Claims about the channels of the jobs, checked under SpecChannels *)

\* the events that are published for a job
PublishedEvents ==
  {"job_status_update", "queue_position_update", "processing_error"}

\* C20: a connection that is joined to the channel of job A only receives
\* no event published for a job B other than A: whenever an event is
\* published, no connection that is in the room of A and in no other room
\* has an event of B added to what it has received.
C20_NoEventOfAnotherJob ==
  [][\A s \in Connections, a \in JobIds, b \in JobIds :
       (/\ emits' # emits
        /\ a # b
        /\ \A j \in JobIds : s \in rooms[j] <=> j = a)
       => ~(/\ Len(inbox'[s]) > Len(inbox[s])
            /\ inbox'[s][Len(inbox'[s])].event \in PublishedEvents
            /\ inbox'[s][Len(inbox'[s])].job_id = b)]_vars

\* s1 is joined to A only and s2 to B; an error of B has been published
\* and has reached s2, and nothing of B has reached s1
C20_Witness ==
  /\ rooms["A"] = {"s1"}
  /\ rooms["B"] = {"s2"}
  /\ \E i \in DOMAIN inbox["s2"] :
       /\ inbox["s2"][i].event = "processing_error"
       /\ inbox["s2"][i].job_id = "B"
  /\ \A i \in DOMAIN inbox["s1"] :
       /\ inbox["s1"][i].event \in PublishedEvents
       /\ inbox["s1"][i].job_id = "A"

----------------------------------------------------------------------------
(* Claims about the subscribe handler, checked under SpecSnapshot *)

\* C21: a subscribe without a job_id or with a job_id no job has sends one
\* error event to the requesting connection and to no other, and leaves
\* every room as it was; a subscribe with the job_id of a job adds the
\* connection to the room of that job and sends, to that connection only,
\* one job_status_update that holds the stored status, progress, phase,
\* queue position, can_cancel flag and error message of the job.
C21_SubscribeContract ==
  [][(subs' # subs /\ request'.event = "subscribe_job_status") =>
       LET s == request'.sid
           j == request'.job_id
       IN /\ \A o \in Connections \ {s} : inbox'[o] = inbox[o]
          /\ Len(inbox'[s]) = Len(inbox[s]) + 1
          /\ SubSeq(inbox'[s], 1, Len(inbox[s])) = inbox[s]
          /\ LET e == inbox'[s][Len(inbox'[s])]
             IN IF j = NoneMsg \/ ~JobFound(j)
                THEN /\ e.event = "error"
                     /\ rooms' = rooms
                ELSE /\ rooms' = [rooms EXCEPT ![j] = @ \cup {s}]
                     /\ e.event = "job_status_update"
                     /\ e.job_id = j
                     /\ e.status = JobRow(j).status
                     /\ e.progress = JobRow(j).progress
                     /\ e.processing_phase = JobRow(j).processing_phase
                     /\ e.queue_position = JobRow(j).queue_position
                     /\ e.can_cancel = JobRow(j).can_cancel
                     /\ e.error_message = JobRow(j).error_message]_vars

\* s2 is in the room of the failed job; s1 has asked for a job no row has
\* and got an error, then subscribed to the failed job and got its snapshot,
\* and s2 has received nothing in the meantime
C21_Witness ==
  /\ job_exists
  /\ job.status = FAILED
  /\ rooms[TheJob] = {"s1", "s2"}
  /\ Len(inbox["s1"]) = 2
  /\ inbox["s1"][1].event = "error"
  /\ inbox["s1"][2] = StatusSnapshot(TheJob, job)
  /\ inbox["s1"][2].error_message = "API timeout"
  /\ Len(inbox["s2"]) = 1

----------------------------------------------------------------------------
(* Claims about the estimate of the processing time, under SpecEstimate *)

\* no row of the table is within 20% of the file size
NoMatchingSample(kb, table) == get_average_processing_time(kb, table).n = 0

\* C22: with no matching history sample the estimate is
\* max(30, min(floor(90 * x), 1800)) for x = size_kb / 1024 MB: it lies in
\* 30..1800, it is not below the estimate of any smaller file that has no
\* matching sample either, and it is 900 for a file of 10 MB.
C22_FallbackEstimate ==
  (estimate # NoEstimate /\ NoMatchingSample(size_kb, processing_history)) =>
    /\ estimate \in 30..1800
    /\ IF 90 * size_kb < 30 * KBPerMB THEN estimate = 30
       ELSE IF 90 * size_kb >= 1800 * KBPerMB THEN estimate = 1800
       ELSE /\ estimate * KBPerMB <= 90 * size_kb
            /\ 90 * size_kb < (estimate + 1) * KBPerMB
    /\ \A y \in FileSizesKB :
         (y <= size_kb /\ NoMatchingSample(y, processing_history))
           => estimate_processing_time(y, processing_history) <= estimate
    /\ size_kb = 10 * KBPerMB => estimate = 900

\* the estimate of a file of 10 MB with an empty history has been made
C22_Witness ==
  /\ size_kb = 10 * KBPerMB
  /\ processing_history = <<>>
  /\ estimate = 900

----------------------------------------------------------------------------
(* Claims about the choice of the backend, checked under SpecInit *)

\* the probe of a strategy succeeds
ProbeSucceeds(c) ==
  CASE c \in {"configured", "localhost"} ->
         reachable[c] /\ c \notin probe_raises
    [] c = "fake" -> use_fake_redis /\ reachable["fake"]
    [] OTHER -> TRUE

\* the backend a strategy makes active
BackendOf(c) ==
  CASE c \in {"configured", "localhost"} -> [type |-> REDIS, client |-> c]
    [] c = "fake" -> [type |-> FAKE_REDIS, client |-> "fake"]
    [] OTHER -> [type |-> MEMORY, client |-> NoClient]

\* C25: after initialization one backend is active, that of the first
\* strategy in the order configured, localhost, fake, memory whose probe
\* succeeds; memory is active exactly when the three others failed or were
\* skipped, and a strategy that raises counts as failed.
C25_FirstWorkingBackend ==
  conn.pc = "sleep" =>
    /\ \E i \in DOMAIN strategies :
         /\ ProbeSucceeds(strategies[i])
         /\ \A j \in 1..(i - 1) : ~ProbeSucceeds(strategies[j])
         /\ [type |-> backend_type, client |-> redis_client]
              = BackendOf(strategies[i])
    /\ backend_type = MEMORY
         <=> \A c \in {"configured", "localhost", "fake"} : ~ProbeSucceeds(c)

\* the client of the configured server raised, localhost refused, and the
\* service has ended on fakeredis
C25_Witness ==
  /\ conn.pc = "sleep"
  /\ "configured" \in probe_raises
  /\ reachable["configured"]
  /\ ~reachable["localhost"]
  /\ backend_type = FAKE_REDIS
  /\ redis_client = "fake"

----------------------------------------------------------------------------
(* Claims about the upload route, checked under Spec *)

\* no task message of the job is in the broker or in a worker
NoTask ==
  /\ \A r \in DOMAIN queue : queue[r] = 0
  /\ \A w \in Workers : pc[w] = "idle"

\* C30: upload commits the job as Queued before it enqueues the task; when
\* enqueueing raises, the upload still reports success and the job stays
\* Queued with no task enqueued for it; and such a job leaves Queued only
\* by a step of another actor, here a client that cancels it.
C30_QueuedWithoutTask ==
  [][/\ upc = "queued" => (job.status = QUEUED /\ NoTask)
     /\ (upc = "queued" /\ upc' # upc)
          => /\ job' = job
             /\ upload_response'.success
             /\ upload_response'.status = 200
     /\ (upc = "queued" /\ upc' = "unqueued") => NoTask'
     /\ upc = "unqueued"
          => /\ NoTask /\ NoTask'
             /\ job' # job => \E c \in Clients : creq'[c] # creq[c]]_vars

\* the upload has answered, the job is Queued and no task exists for it
C30_Witness ==
  /\ upc = "unqueued"
  /\ job.status = QUEUED
  /\ NoTask
  /\ upload_response.success

----------------------------------------------------------------------------
(* Claims about request threads and the monitor, under SpecThreads *)

\* the backend type of a client
TypeOf(c) ==
  CASE c \in {"configured", "localhost"} -> REDIS
    [] c = "fake" -> FAKE_REDIS
    [] OTHER -> MEMORY

----------------------------------------------------------------------------
(* Claims about the monitor, checked under SpecMonitor *)

\* C27: a reconnection is attempted only by the monitor, after a ping of
\* the active Redis backend has failed; two attempts in a row are at least
\* connection_retry_interval seconds apart; and a ping failure that comes
\* less than that after the last attempt, by datetime.now(), starts no
\* attempt and leaves last_connection_attempt as it is.
C27_ReconnectionIsRateLimited ==
  [][/\ (conn'.pc = "reconnect" /\ conn.pc # "reconnect")
          => /\ conn.caller = "monitor"
             /\ conn.pc = "sleep"
             /\ backend_type = REDIS
             /\ redis_client # NoClient
             /\ ~reachable[redis_client]
     /\ (conn'.caller = "reconnect" /\ conn.caller # "reconnect")
          => /\ conn.pc = "reconnect"
             /\ monitor_log.attempted_at >= 0
                  => uptime - monitor_log.attempted_at
                       >= connection_retry_interval
     /\ (/\ conn.pc = "reconnect"
         /\ conn' # conn
         /\ last_connection_attempt # NoTime
         /\ now - last_connection_attempt < connection_retry_interval)
          => /\ conn'.caller = "monitor"
             /\ conn'.pc = "sleep"
             /\ last_connection_attempt' = last_connection_attempt
             /\ redis_client' = redis_client]_vars

\* the monitor has attempted one reconnection and has let a later ping
\* failure pass, the local time having been set back: it has logged two
\* lost connections and one attempt, and sleeps again
C27_Witness ==
  /\ monitor_log.lost = 2
  /\ monitor_log.attempting = 1
  /\ conn = Sleeping
  /\ last_connection_attempt # NoTime
  /\ now - last_connection_attempt < connection_retry_interval
  /\ uptime - monitor_log.attempted_at >= connection_retry_interval

----------------------------------------------------------------------------
(* Claims about an unreachable Redis backend, checked under SpecOutage *)

\* the Redis backend is the active one and its server does not answer
Unreachable ==
  backend_type = REDIS /\ redis_client # NoClient /\ ~reachable[redis_client]

----------------------------------------------------------------------------
(* Claims about stored values, checked under SpecRoundTrip *)

\* C24: on every backend, get(k) right after a successful set(k, v)
\* returns a value of the type and the content of v.
C24_GetReturnsWhatWasSet ==
  [][\A k \in Keys :
       (/\ ops' # ops
        /\ reply.op = "set" /\ reply.key = k /\ reply.value = PyTrue
        /\ reply'.op = "get" /\ reply'.key = k)
       => reply'.value = last_write[k].value]_vars

----------------------------------------------------------------------------
(* Claims about the in-memory fallback, checked under SpecMemory *)

\* C23: on the in-memory fallback, when the last write to k is
\* set(k, v, ex=T), get(k) returns v at every time before T has elapsed and
\* None at every time after it has, and exists(k) returns 0 then.
C23_ValueLivesForItsTTL ==
  [][\A k \in Keys :
       (/\ ops' # ops
        /\ reply'.key = k
        /\ ~UsesClient
        /\ last_write[k].op = "set"
        /\ last_write[k].ex # NoEx)
       => LET T == last_write[k].at + last_write[k].ex
          IN /\ (reply'.op = "get" /\ now < T)
                  => reply'.value = last_write[k].value
             /\ (reply'.op = "get" /\ now > T) => reply'.value = PyNone
             /\ (reply'.op = "exists" /\ now > T)
                  => reply'.value = PyInt("0")]_vars

\* C28: on the in-memory fallback only the timer of the most recent set of a
\* key removes its value: whenever the thread of a timer removes a value,
\* the last write of the key is the set that started that timer.
C28_OnlyTheLastSetExpires ==
  [][\A t \in DOMAIN timers :
       (/\ timers[t].state = "running"
        /\ timers'[t].state = "popped"
        /\ fallback_storage[timers[t].key] # PyNone)
       => /\ last_write[timers[t].key].op = "set"
          /\ last_write[timers[t].key].timer = t]_vars

----------------------------------------------------------------------------
(* Claims about the error handling of the task, checked under SpecRun *)

----------------------------------------------------------------------------
(* Claims about time limits, checked under SpecTimeLimit *)

\* C11: a job that is in Processing or GeneratingOutput when the wall-clock
\* limit of its task has expired, the worker process killed at the hard limit
\* included, eventually has status Failed.
C11_TimedOutJobEventuallyFailed ==
  ((\E w \in Workers : time_limit[w] = "hard")
     /\ job.status \in {PROCESSING, GENERATING_OUTPUT})
    ~> (job.status = FAILED)

====
